---- MODULE Spec2Model ----
(***************************************************************************)
(* Model of src/main.py: the frequency ranker make_dict and the            *)
(* interactive letter-guessing session guessing_game.                      *)
(*                                                                         *)
(* Python strings are modelled as tuples of one-character strings, so      *)
(* that len(), lower(), isalpha() and list(word) are computed, not         *)
(* assumed.  The console is modelled by `out`, the messages printed by     *)
(* the last step, and by the position `pc` at which the program blocks     *)
(* on input().                                                             *)
(***************************************************************************)
EXTENDS Integers, Sequences, FiniteSets, TLC

VARIABLES
    pc,                \* position of the program: where it blocks or stopped
    tokens,            \* token list: lexi_div local, preprocess result, make_dict argument
    tags_list,         \* preprocess local: (lemma, tag) pairs returned by pos_tag
    ratio,             \* lexi_div local, as the pair <<numerator, denominator>>
    noun_list,         \* preprocess result / make_dict argument: noun list
    noun_dict,         \* make_dict local: <<noun, count>> pairs in dict order
    most_common_words, \* make_dict result / guessing_game argument
    total_score,       \* guessing_game local
    word,              \* guessing_game local: secret word
    word_letters,      \* guessing_game local: list(word)
    guessed_letters,   \* guessing_game local: letters accepted this round
    hidden_word,       \* guessing_game local: the revealed mask
    outcome,           \* state of the round: None, Active, Solved, Exhausted, Quit
    out,               \* messages printed by the last step, in order
    score_path,        \* score at round start followed by each score printed in the round
    rounds,            \* number of rounds started so far
    hits,              \* number of times line 196 ran in the session
    misses             \* number of times line 199 ran in the session

\* variables of the text pipeline, untouched by guessing_game
textVars == <<tokens, tags_list, ratio, noun_list, noun_dict>>

vars == <<pc, tokens, tags_list, ratio, noun_list, noun_dict, most_common_words,
          total_score, word, word_letters, guessed_letters, hidden_word,
          outcome, out, score_path, rounds, hits, misses>>

----------------------------------------------------------------------------
(* Bounds of the model *)

MaxRounds == 2     \* rounds a session may start
MaxNouns  == 3     \* length of the noun list given to make_dict
MaxTokens == 4     \* length of the token stream given to make_dict
MaxLongTokens == 1 \* length of the token stream given with a long noun list
MaxTags == 3       \* length of the short tagged-lemma lists given to preprocess
MaxLexiTokens == 4 \* length of the token list given to lexi_div

----------------------------------------------------------------------------
(* Generic helpers *)

Range(s) == {s[i] : i \in DOMAIN s}

SeqsUpTo(S, n) == UNION {[1..k -> S] : k \in 0..n}

Reverse(s) == [i \in DOMAIN s |-> s[Len(s) + 1 - i]]

Min(a, b) == IF a < b THEN a ELSE b

----------------------------------------------------------------------------
(* Characters and strings *)

LowerLetters == {"g", "a", "r", "d", "e", "n", "x", "y", "s"}

UpperLetters == {"G", "A", "R", "D", "E", "N", "X", "Y", "S"}

\* str.lower() on one character
LowerChar(c) ==
    CASE c = "G" -> "g" [] c = "A" -> "a" [] c = "R" -> "r"
      [] c = "D" -> "d" [] c = "E" -> "e" [] c = "N" -> "n"
      [] c = "X" -> "x" [] c = "Y" -> "y" [] c = "S" -> "s"
      [] OTHER -> c

\* str.lower()
Lower(s) == [i \in DOMAIN s |-> LowerChar(s[i])]

\* str.isalpha(): non-empty and every character alphabetic
IsAlpha(s) ==
    Len(s) > 0 /\ \A i \in DOMAIN s : s[i] \in LowerLetters \/ s[i] \in UpperLetters

\* list(word) for the words of the vocabulary
Letters(w) ==
    CASE w = "garden" -> <<"g", "a", "r", "d", "e", "n">>
      [] w = "deeded" -> <<"d", "e", "e", "d", "e", "d">>
      [] w = "deed"   -> <<"d", "e", "e", "d">>

----------------------------------------------------------------------------
(* Console input offered to the program *)

GuessChars == {"d", "e", "g", "a", "r", "x", "X", "!", "1"}

\* lines typed at the guess prompt: empty, one character, several characters
GuessInputs ==
    {<<>>} \cup {<<c>> : c \in GuessChars}
           \cup {<<"d", "e">>, <<"!", "!">>, <<" ", "!">>}

\* lines typed at the guess prompt in the scenario with the word "garden"
ScenarioInputs == GuessInputs \cup {<<"n">>, <<"N">>}

\* lines typed at the continuation prompt
AnswerInputs ==
    {<<"y">>, <<"Y">>, <<"y", "e", "s">>, <<"Y", "E", "S">>, <<"n">>, <<>>, <<"!">>}

\* vocabularies handed to guessing_game
Vocabularies == {<<>>, <<"deed", "deeded">>}

----------------------------------------------------------------------------
(* guessing_game: pieces of the loop body *)

InitialScore == 5

Placeholder == "_ "

\* variant: the guessed letters survive the round
InitGuessed_Carried == guessed_letters

\* guessed_letters = []
InitGuessed == <<>>

\* hidden_word = ["_ " for _ in word_letters]
InitHidden(wl) == [i \in DOMAIN wl |-> Placeholder]

\* variant: the sentinel is compared with another character
IsQuit_OtherSentinel(guess) == guess = <<"q">>

\* guess == "!"
IsQuit(guess) == guess = <<"!">>

\* variant: the alphabetic test is left out
IsInvalid_LengthOnly(guess) == Len(guess) # 1

\* len(guess) != 1 or not guess.isalpha()
IsInvalid(guess) == Len(guess) # 1 \/ ~IsAlpha(guess)

\* variant: only the most recent guess is remembered
AlreadyGuessed_LastOnly(guess, gl) == gl # <<>> /\ guess[1] = gl[Len(gl)]

\* guess in guessed_letters
AlreadyGuessed(guess, gl) == guess[1] \in Range(gl)

\* guess in word_letters
IsHit(guess, wl) == guess[1] \in Range(wl)

\* variant: the scan stops at the first matching position
Reveal_FirstOnly(h, wl, guess) ==
    LET first == CHOOSE i \in DOMAIN wl :
                    wl[i] = guess[1] /\ \A j \in 1..(i - 1) : wl[j] # guess[1]
    IN [h EXCEPT ![first] = guess[1]]

\* variant: a hit uncovers the whole word
Reveal_WholeWord(h, wl, guess) == wl

\* variant: the mask is rebuilt from the current guess alone
Reveal_CurrentOnly(h, wl, guess) ==
    [i \in DOMAIN h |-> IF wl[i] = guess[1] THEN guess[1] ELSE Placeholder]

\* for i in range(len(word_letters)): if word_letters[i] == guess: hidden_word[i] = guess
Reveal(h, wl, guess) ==
    [i \in DOMAIN h |-> IF wl[i] = guess[1] THEN guess[1] ELSE h[i]]

\* variant: a hit is not scored
HitScore_Unscored(s) == s

\* variant: a hit costs a point
HitScore_Penalty(s) == s - 1

\* total_score += 1
HitScore(s) == s + 1

\* variant: a miss costs two points
MissScore_Double(s) == s - 2

\* total_score -= 1
MissScore(s) == s - 1

\* variant: the loop test forgets the score
InnerContinues_NoScore(h, wl, s) == h # wl

\* while hidden_word != word_letters and total_score > 0
InnerContinues(h, wl, s) == h # wl /\ s > 0

\* if hidden_word == word_letters
IsSolved(h, wl) == h = wl

\* while total_score > 0  /  if total_score > 0
ScorePositive(s) == s > 0

\* variant: every answer but "n" continues
PlaysAgain_UnlessNo(answer) == answer # <<"n">>

\* guess_again != "y" is false
PlaysAgain(answer) == answer = <<"y">>

\* Control after the body of the inner loop (or after the round is set up):
\* the inner loop test, then the resolution of the round, the continuation
\* test and, when the score is 0, the outer loop test and the farewell.
LoopTail(h, wl, s, msgs) ==
    IF InnerContinues(h, wl, s)
    THEN /\ pc' = "guess"
         /\ outcome' = "Active"
         /\ out' = msgs \o <<"mask", "guess_prompt">>
    ELSE /\ outcome' = IF IsSolved(h, wl) THEN "Solved" ELSE "Exhausted"
         /\ LET res == IF IsSolved(h, wl) THEN <<"mask", "solved">> ELSE <<"ran_out">>
            IN IF ScorePositive(s)
               THEN /\ pc' = "again"
                    /\ out' = msgs \o res \o <<"current_score", "again_prompt">>
               ELSE /\ pc' = "done"
                    /\ out' = msgs \o res \o <<"current_score", "thanks">>

\* variant: an empty vocabulary ends the session quietly
EnterRound_QuietOnEmpty(msgs) ==
    IF most_common_words = <<>>
    THEN /\ pc' = "done"
         /\ out' = msgs \o <<"thanks">>
         /\ UNCHANGED <<total_score, word, word_letters, guessed_letters,
                        hidden_word, outcome, score_path, rounds, hits, misses>>
    ELSE \E k \in DOMAIN most_common_words :
           LET w  == most_common_words[k]
               wl == Letters(w)
           IN /\ word' = w
              /\ word_letters' = wl
              /\ guessed_letters' = InitGuessed
              /\ hidden_word' = InitHidden(wl)
              /\ score_path' = <<total_score>>
              /\ rounds' = rounds + 1
              /\ UNCHANGED <<total_score, hits, misses>>
              /\ LoopTail(InitHidden(wl), wl, total_score, msgs)

\* Top of the outer loop with a positive score: pick a word and set up the round.
EnterRound(msgs) ==
    IF most_common_words = <<>>
    THEN \* random.choice raises IndexError on an empty sequence
         /\ pc' = "error"
         /\ out' = msgs \o <<"IndexError">>
         /\ UNCHANGED <<total_score, word, word_letters, guessed_letters,
                        hidden_word, outcome, score_path, rounds, hits, misses>>
    ELSE \E k \in DOMAIN most_common_words :
           LET w  == most_common_words[k]
               wl == Letters(w)
           IN /\ word' = w
              /\ word_letters' = wl
              /\ guessed_letters' = InitGuessed
              /\ hidden_word' = InitHidden(wl)
              /\ score_path' = <<total_score>>
              /\ rounds' = rounds + 1
              /\ UNCHANGED <<total_score, hits, misses>>
              /\ LoopTail(InitHidden(wl), wl, total_score, msgs)

----------------------------------------------------------------------------
(* guessing_game: one action per path through a blocking step *)

\* entry of guessing_game up to the first prompt
StartGame ==
    /\ pc = "start"
    /\ IF ScorePositive(total_score)
       THEN EnterRound(<<"lets_play">>)
       ELSE /\ pc' = "done"
            /\ out' = <<"lets_play", "thanks">>
            /\ UNCHANGED <<total_score, word, word_letters, guessed_letters,
                           hidden_word, outcome, score_path, rounds, hits, misses>>
    /\ UNCHANGED <<textVars, most_common_words>>

\* lines 178-179: farewell and return
QuitBody ==
    /\ pc' = "done"
    /\ outcome' = "Quit"
    /\ out' = <<"thanks">>
    /\ UNCHANGED <<textVars, most_common_words, total_score, word,
                   word_letters, guessed_letters, hidden_word, score_path, rounds, hits, misses>>

\* lines 183-184 and 186-187: message, continue
RejectBody(msg) ==
    /\ UNCHANGED <<textVars, most_common_words, total_score, word,
                   word_letters, guessed_letters, hidden_word, score_path, rounds, hits, misses>>
    /\ LoopTail(hidden_word, word_letters, total_score, <<msg>>)

\* lines 189, 193-197: append, reveal, score, message
HitBody(guess) ==
    /\ guessed_letters' = Append(guessed_letters, guess[1])
    /\ hidden_word' = Reveal(hidden_word, word_letters, guess)
    /\ total_score' = HitScore(total_score)
    /\ score_path' = Append(score_path, HitScore(total_score))
    /\ hits' = hits + 1
    /\ UNCHANGED <<textVars, most_common_words, word, word_letters, rounds, misses>>
    /\ LoopTail(Reveal(hidden_word, word_letters, guess), word_letters,
                HitScore(total_score), <<"right">>)

\* variant: a miss is neither recorded nor scored
MissBody_NotRecorded(guess) ==
    /\ UNCHANGED <<textVars, most_common_words, total_score, word, word_letters,
                   guessed_letters, hidden_word, score_path, rounds, hits, misses>>
    /\ LoopTail(hidden_word, word_letters, total_score, <<"sorry">>)

\* lines 189, 199-200: append, score, message
MissBody(guess) ==
    /\ guessed_letters' = Append(guessed_letters, guess[1])
    /\ total_score' = MissScore(total_score)
    /\ score_path' = Append(score_path, MissScore(total_score))
    /\ misses' = misses + 1
    /\ UNCHANGED <<textVars, most_common_words, word, word_letters,
                   hidden_word, rounds, hits>>
    /\ LoopTail(hidden_word, word_letters, MissScore(total_score), <<"sorry">>)

\* guess == "!"
GuessQuit(input) ==
    LET guess == Lower(input) IN
    /\ pc = "guess"
    /\ IsQuit(guess)
    /\ QuitBody

\* malformed guess
GuessInvalid(input) ==
    LET guess == Lower(input) IN
    /\ pc = "guess"
    /\ ~IsQuit(guess)
    /\ IsInvalid(guess)
    /\ RejectBody("invalid")

\* repeated guess
GuessRepeat(input) ==
    LET guess == Lower(input) IN
    /\ pc = "guess"
    /\ ~IsQuit(guess)
    /\ ~IsInvalid(guess)
    /\ AlreadyGuessed(guess, guessed_letters)
    /\ RejectBody("already")

\* accepted guess that occurs in the word
GuessHit(input) ==
    LET guess == Lower(input) IN
    /\ pc = "guess"
    /\ ~IsQuit(guess)
    /\ ~IsInvalid(guess)
    /\ ~AlreadyGuessed(guess, guessed_letters)
    /\ IsHit(guess, word_letters)
    /\ HitBody(guess)

\* accepted guess that does not occur in the word
GuessMiss(input) ==
    LET guess == Lower(input) IN
    /\ pc = "guess"
    /\ ~IsQuit(guess)
    /\ ~IsInvalid(guess)
    /\ ~AlreadyGuessed(guess, guessed_letters)
    /\ ~IsHit(guess, word_letters)
    /\ MissBody(guess)

\* the whole handler of one line typed at the guess prompt, lines 175-200,
\* with its tests in the order of the code
Guess(input) ==
    LET guess == Lower(input) IN
    /\ pc = "guess"
    /\ IF IsQuit(guess) THEN QuitBody
       ELSE IF IsInvalid(guess) THEN RejectBody("invalid")
       ELSE IF AlreadyGuessed(guess, guessed_letters) THEN RejectBody("already")
       ELSE IF IsHit(guess, word_letters) THEN HitBody(guess)
       ELSE MissBody(guess)

\* continuation prompt answered "y": back to the top of the outer loop
AgainYes(input) ==
    LET guess_again == Lower(input) IN
    /\ pc = "again"
    /\ PlaysAgain(guess_again)
    /\ rounds < MaxRounds
    /\ IF ScorePositive(total_score)
       THEN EnterRound(<<>>)
       ELSE /\ pc' = "done"
            /\ out' = <<"thanks">>
            /\ UNCHANGED <<total_score, word, word_letters, guessed_letters,
                           hidden_word, outcome, score_path, rounds, hits, misses>>
    /\ UNCHANGED <<textVars, most_common_words>>

\* continuation prompt answered anything else: break, farewell
AgainNo(input) ==
    LET guess_again == Lower(input) IN
    /\ pc = "again"
    /\ ~PlaysAgain(guess_again)
    /\ pc' = "done"
    /\ out' = <<"thanks">>
    /\ UNCHANGED <<textVars, most_common_words, total_score, word,
                   word_letters, guessed_letters, hidden_word, outcome,
                   score_path, rounds, hits, misses>>

Again(input) == AgainYes(input) \/ AgainNo(input)

Init ==
    /\ pc = "start"
    /\ tokens = <<>>
    /\ tags_list = <<>>
    /\ ratio = <<0, 0>>
    /\ noun_list = <<>>
    /\ noun_dict = <<>>
    /\ most_common_words \in Vocabularies
    /\ total_score = InitialScore
    /\ word = ""
    /\ word_letters = <<>>
    /\ guessed_letters = <<>>
    /\ hidden_word = <<>>
    /\ outcome = "None"
    /\ out = <<>>
    /\ score_path = <<>>
    /\ rounds = 0
    /\ hits = 0
    /\ misses = 0

Next ==
    \/ StartGame
    \/ \E input \in GuessInputs : GuessQuit(input)
    \/ \E input \in GuessInputs : GuessInvalid(input)
    \/ \E input \in GuessInputs : GuessRepeat(input)
    \/ \E input \in GuessInputs : GuessHit(input)
    \/ \E input \in GuessInputs : GuessMiss(input)
    \/ \E input \in AnswerInputs : AgainYes(input)
    \/ \E input \in AnswerInputs : AgainNo(input)

Spec == Init /\ [][Next]_vars

\* a line that is not sent back: a new letter or the quit sentinel
AcceptedInput ==
    \E input \in GuessInputs : GuessQuit(input) \/ GuessHit(input) \/ GuessMiss(input)

\* the player at a guess prompt eventually enters such a line
SpecLive == Spec /\ WF_vars(AcceptedInput)

TypeOK ==
    /\ pc \in {"start", "guess", "again", "done", "error", "make_dict", "ranked",
              "preprocess", "preprocessed", "lexi_div", "lexi_done"}
    /\ total_score \in Int
    /\ outcome \in {"None", "Active", "Solved", "Exhausted", "Quit"}

----------------------------------------------------------------------------
(* make_dict *)

TopN == 50

DictNouns == {"cat", "dog", "emu"}

DictTokens == {"cat", "dog", "bird"}

\* keys of noun_dict after `for noun in noun_list: noun_dict[noun] = 0`:
\* a dict keeps a key at the position of its first insertion, so the keys
\* are the entries of noun_list at the positions of first occurrence
DictKeys(nl) ==
    LET firsts == {i \in DOMAIN nl : \A j \in 1..(i - 1) : nl[j] # nl[i]}
    IN [r \in 1..Cardinality(firsts) |->
          nl[CHOOSE i \in firsts : Cardinality({j \in firsts : j < i}) = r - 1]]

\* value of key after `for token in tokens: if token in noun_dict: noun_dict[token] += 1`
RECURSIVE CountOf(_, _)
CountOf(key, toks) ==
    IF toks = <<>> THEN 0
    ELSE CountOf(key, SubSeq(toks, 1, Len(toks) - 1))
           + (IF toks[Len(toks)] = key THEN 1 ELSE 0)

\* noun_dict after `for noun in noun_list: noun_dict[noun] = 0`, as
\* <<noun, count>> pairs in dict order
ZeroDict(nl) ==
    LET keys == DictKeys(nl)
    IN [i \in DOMAIN keys |-> <<keys[i], 0>>]

\* variant: a noun found in the stream is marked, not counted
CountStep_Presence(d, token) ==
    [i \in DOMAIN d |-> IF d[i][1] = token THEN <<d[i][1], 1>> ELSE d[i]]

\* if token in noun_dict: noun_dict[token] += 1
CountStep(d, token) ==
    [i \in DOMAIN d |-> IF d[i][1] = token THEN <<d[i][1], d[i][2] + 1>> ELSE d[i]]

\* for token in tokens: ...
RECURSIVE CountTokens(_, _)
CountTokens(d, toks) ==
    IF toks = <<>> THEN d
    ELSE CountTokens(CountStep(d, Head(toks)), Tail(toks))

\* list(noun_dict.keys())
KeysOf(d) == [i \in DOMAIN d |-> d[i][1]]

\* list(noun_dict.values())
DictValues(d) == [i \in DOMAIN d |-> d[i][2]]

Permutations1(n) == {p \in [1..n -> 1..n] : \A i, j \in 1..n : p[i] = p[j] => i = j}

\* the ascending index order that keeps equal values in index order
StableAscending(values) ==
    LET n == Len(values)
        rank == [i \in 1..n |->
                   1 + Cardinality({j \in 1..n :
                         values[j] < values[i] \/ (values[j] = values[i] /\ j < i)})]
    IN [r \in 1..n |-> CHOOSE i \in 1..n : rank[i] = r]

\* the ascending index order that turns equal values around
ReversedTiesAscending(values) ==
    LET n == Len(values)
        rank == [i \in 1..n |->
                   1 + Cardinality({j \in 1..n :
                         values[j] < values[i] \/ (values[j] = values[i] /\ j > i)})]
    IN [r \in 1..n |-> CHOOSE i \in 1..n : rank[i] = r]

\* np.argsort(values): the default kind is an unstable quicksort, so the
\* result is some index order that sorts the values ascending; the order
\* among equal values depends on the build.  Every such order is taken for
\* lists of up to MaxNouns values; for longer lists the orders cannot be
\* enumerated and the two extreme tie orders are taken.
ArgSorts(values) ==
    IF Len(values) <= MaxNouns
    THEN {p \in Permutations1(Len(values)) :
            \A i \in 1..(Len(values) - 1) : values[p[i]] <= values[p[i + 1]]}
    ELSE {StableAscending(values), ReversedTiesAscending(values)}

\* noun_dict rebuilt in the order argsort(...)[::-1] (line 144)
SortedDict(d, p) ==
    LET sorted_value_index == Reverse(p)
    IN [i \in DOMAIN d |-> d[sorted_value_index[i]]]

\* variant: the index order is not turned around
RankedKeys_NoReverse(keys, p) ==
    LET ordered == [i \in DOMAIN keys |-> keys[p[i]]]
    IN SubSeq(ordered, 1, Min(TopN, Len(ordered)))

\* variant: the slice is left out
RankedKeys_NoCut(keys, p) ==
    LET sorted_value_index == Reverse(p)
    IN [i \in DOMAIN keys |-> keys[sorted_value_index[i]]]

\* list(noun_dict.keys())[:50] of the dict rebuilt in the order argsort(...)[::-1]
RankedKeys(keys, p) ==
    LET sorted_value_index == Reverse(p)
        ordered == [i \in DOMAIN keys |-> keys[sorted_value_index[i]]]
    IN SubSeq(ordered, 1, Min(TopN, Len(ordered)))

MakeDict ==
    /\ pc = "make_dict"
    /\ LET counted == CountTokens(ZeroDict(noun_list), tokens)
       IN \E p \in ArgSorts(DictValues(counted)) :
            /\ noun_dict' = SortedDict(counted, p)
            /\ most_common_words' = RankedKeys(KeysOf(counted), p)
    /\ pc' = "ranked"
    /\ out' = <<"most_common_words">>
    /\ UNCHANGED <<tokens, tags_list, ratio, noun_list, total_score, word,
                   word_letters, guessed_letters, hidden_word, outcome,
                   score_path, rounds, hits, misses>>

\* noun lists long enough for the slice of line 147 to cut
LongNounLists == {[i \in 1..n |-> ToString(i)] : n \in {TopN - 1, TopN, TopN + 1, 75}}

LongTokens == {"1", "50", "51", "75", "bird"}

\* the example of the count property
ExampleInput == << <<"cat", "dog", "cat", "bird", "cat">>, <<"cat", "dog">> >>

\* <<tokens, noun_list>> pairs given to make_dict
DictInputs ==
    (SeqsUpTo(DictTokens, MaxTokens) \X SeqsUpTo(DictNouns, MaxNouns))
      \cup (SeqsUpTo(LongTokens, MaxLongTokens) \X LongNounLists)
      \cup {ExampleInput}

InitDict ==
    /\ pc = "make_dict"
    /\ \E input \in DictInputs : tokens = input[1] /\ noun_list = input[2]
    /\ tags_list = <<>>
    /\ ratio = <<0, 0>>
    /\ noun_dict = <<>>
    /\ most_common_words = <<>>
    /\ total_score = InitialScore
    /\ word = ""
    /\ word_letters = <<>>
    /\ guessed_letters = <<>>
    /\ hidden_word = <<>>
    /\ outcome = "None"
    /\ out = <<>>
    /\ score_path = <<>>
    /\ rounds = 0
    /\ hits = 0
    /\ misses = 0

NextDict == MakeDict

SpecDict == InitDict /\ [][NextDict]_vars

----------------------------------------------------------------------------
(* Initial values of the variables a specification does not start from *)

IdleGame ==
    /\ total_score = InitialScore
    /\ word = ""
    /\ word_letters = <<>>
    /\ guessed_letters = <<>>
    /\ hidden_word = <<>>
    /\ outcome = "None"
    /\ score_path = <<>>
    /\ rounds = 0
    /\ hits = 0
    /\ misses = 0

----------------------------------------------------------------------------
(* main: make_dict followed by guessing_game *)

\* <<tokens, noun_list>> pairs given to make_dict by main
MainInputs ==
    {<< <<>>, <<>> >>, << <<"deed">>, <<>> >>, << <<"deed">>, <<"deed">> >>}

\* line 234: main hands the result of make_dict to guessing_game
CallGame ==
    /\ pc = "ranked"
    /\ pc' = "start"
    /\ total_score' = InitialScore
    /\ out' = <<>>
    /\ UNCHANGED <<textVars, most_common_words, word, word_letters,
                   guessed_letters, hidden_word, outcome, score_path, rounds,
                   hits, misses>>

InitMain ==
    /\ pc = "make_dict"
    /\ \E input \in MainInputs : tokens = input[1] /\ noun_list = input[2]
    /\ tags_list = <<>>
    /\ ratio = <<0, 0>>
    /\ noun_dict = <<>>
    /\ most_common_words = <<>>
    /\ out = <<>>
    /\ IdleGame

NextMain ==
    \/ MakeDict
    \/ CallGame
    \/ StartGame
    \/ \E input \in GuessInputs : GuessQuit(input)
    \/ \E input \in GuessInputs : GuessInvalid(input)
    \/ \E input \in GuessInputs : GuessRepeat(input)
    \/ \E input \in GuessInputs : GuessHit(input)
    \/ \E input \in GuessInputs : GuessMiss(input)
    \/ \E input \in AnswerInputs : AgainYes(input)
    \/ \E input \in AnswerInputs : AgainNo(input)

SpecMain == InitMain /\ [][NextMain]_vars

----------------------------------------------------------------------------
(* preprocess, lines 101-117: from the tagged lemmas on *)

PrintCount == 20

NounTag == "NN"

\* the lemma lines printed by `for i in range(20): print(... tags_list[i] ...)`
\* up to the first index that is out of range
LemmaLines(tl) == [i \in 1..Min(PrintCount, Len(tl)) |-> "lemma_tag"]

\* tags_list[i] raises IndexError for some i in range(20)
PrintFails(tl) == Len(tl) < PrintCount

\* noun_list of lines 109-112: the lemmas tagged "NN", in order
RECURSIVE SelectNouns(_)
SelectNouns(tl) ==
    IF tl = <<>> THEN <<>>
    ELSE IF Head(tl)[2] = NounTag
         THEN <<Head(tl)[1]>> \o SelectNouns(Tail(tl))
         ELSE SelectNouns(Tail(tl))

Preprocess ==
    /\ pc = "preprocess"
    /\ IF PrintFails(tags_list)
       THEN /\ pc' = "error"
            /\ out' = LemmaLines(tags_list) \o <<"IndexError">>
            /\ UNCHANGED noun_list
       ELSE /\ pc' = "preprocessed"
            /\ out' = LemmaLines(tags_list) \o <<"number_of_tokens", "number_of_nouns">>
            /\ noun_list' = SelectNouns(tags_list)
    /\ UNCHANGED <<tokens, tags_list, ratio, noun_dict, most_common_words,
                   total_score, word, word_letters, guessed_letters, hidden_word,
                   outcome, score_path, rounds, hits, misses>>

TagLemmas == {"cat", "dog", "emu"}

TagPairs == TagLemmas \X {"NN", "VB"}

\* tagged lists of unique lemmas, as pos_tag(unique_lemmas) returns them
ShortTagLists ==
    {tl \in SeqsUpTo(TagPairs, MaxTags) :
        \A i, j \in DOMAIN tl : tl[i][1] = tl[j][1] => i = j}

\* tagged lists with one entry less than, as many as and one more than are printed
LongTagLists ==
    {[i \in 1..n |-> <<ToString(i), IF i % 3 = 0 THEN "NN" ELSE "JJ">>] :
        n \in {PrintCount - 1, PrintCount, PrintCount + 1}}

InitPre ==
    /\ pc = "preprocess"
    /\ tags_list \in ShortTagLists \cup LongTagLists
    /\ tokens \in {<<>>, <<"garden", "forest">>}
    /\ ratio = <<0, 0>>
    /\ noun_list = <<>>
    /\ noun_dict = <<>>
    /\ most_common_words = <<>>
    /\ out = <<>>
    /\ IdleGame

NextPre == Preprocess

SpecPre == InitPre /\ [][NextPre]_vars

----------------------------------------------------------------------------
(* lexi_div, lines 64-67: from the token list on *)

LexiTokens == {"the", "cat", "sat"}

\* variant: the tokens are counted without building the set
UniqueCount_NoSet(toks) == Len(toks)

\* len(set(tokens))
UniqueCount(toks) == Cardinality(Range(toks))

LexiDiv ==
    /\ pc = "lexi_div"
    /\ IF Len(tokens) = 0
       THEN \* len(unique_tokens) / len(tokens) raises ZeroDivisionError
            /\ pc' = "error"
            /\ out' = <<"ZeroDivisionError">>
            /\ UNCHANGED ratio
       ELSE /\ pc' = "lexi_done"
            /\ ratio' = <<UniqueCount(tokens), Len(tokens)>>
            /\ out' = <<"lexical_diversity">>
    /\ UNCHANGED <<tokens, tags_list, noun_list, noun_dict, most_common_words,
                   total_score, word, word_letters, guessed_letters, hidden_word,
                   outcome, score_path, rounds, hits, misses>>

InitLexi ==
    /\ pc = "lexi_div"
    /\ tokens \in SeqsUpTo(LexiTokens, MaxLexiTokens)
    /\ tags_list = <<>>
    /\ ratio = <<0, 0>>
    /\ noun_list = <<>>
    /\ noun_dict = <<>>
    /\ most_common_words = <<>>
    /\ out = <<>>
    /\ IdleGame

NextLexi == LexiDiv

SpecLexi == InitLexi /\ [][NextLexi]_vars

----------------------------------------------------------------------------
(* Scenario specification: the vocabulary holds the single word "garden" *)

InitA ==
    /\ pc = "start"
    /\ tokens = <<>>
    /\ tags_list = <<>>
    /\ ratio = <<0, 0>>
    /\ noun_list = <<>>
    /\ noun_dict = <<>>
    /\ most_common_words = <<"garden">>
    /\ total_score = InitialScore
    /\ word = ""
    /\ word_letters = <<>>
    /\ guessed_letters = <<>>
    /\ hidden_word = <<>>
    /\ outcome = "None"
    /\ out = <<>>
    /\ score_path = <<>>
    /\ rounds = 0
    /\ hits = 0
    /\ misses = 0

NextA ==
    \/ StartGame
    \/ \E input \in ScenarioInputs : GuessQuit(input)
    \/ \E input \in ScenarioInputs : GuessInvalid(input)
    \/ \E input \in ScenarioInputs : GuessRepeat(input)
    \/ \E input \in ScenarioInputs : GuessHit(input)
    \/ \E input \in ScenarioInputs : GuessMiss(input)
    \/ \E input \in AnswerInputs : AgainYes(input)
    \/ \E input \in AnswerInputs : AgainNo(input)

SpecA == InitA /\ [][NextA]_vars

----------------------------------------------------------------------------
(* Vocabulary of the properties *)

\* the line typed is exactly one alphabetic character
OneLetter(input) ==
    Len(input) = 1 /\ (input[1] \in LowerLetters \/ input[1] \in UpperLetters)

\* the letter such a line stands for
LetterOf(input) == LowerChar(input[1])

NoDuplicates(s) == \A i, j \in DOMAIN s : s[i] = s[j] => i = j

IsPrefix(s, t) == Len(s) <= Len(t) /\ \A i \in DOMAIN s : s[i] = t[i]

Prompted(msgs) == "guess_prompt" \in Range(msgs) \/ "again_prompt" \in Range(msgs)

Resolved(msgs) == "solved" \in Range(msgs) \/ "ran_out" \in Range(msgs)

\* position of the first occurrence of x in s
FirstIndex(s, x) == CHOOSE i \in DOMAIN s : s[i] = x /\ \A j \in 1..(i - 1) : s[j] # x

----------------------------------------------------------------------------
(* C1: once a guess brings the score to 0 the round is Exhausted on that  *)
(* guess and the session has ended: the program is at no prompt, and the  *)
(* step that reached 0 issued neither a guess prompt nor a continuation   *)
(* prompt.                                                                *)
C1_ScoreFloor ==
    total_score = 0 =>
        /\ pc = "done"
        /\ outcome = "Exhausted"
        /\ ~Prompted(out)
        /\ "ran_out" \in Range(out)

\* a single miss at score 1 ended the round and the session
C1_Witness ==
    /\ total_score = 0
    /\ pc = "done"
    /\ outcome = "Exhausted"
    /\ Len(score_path) >= 2
    /\ score_path[Len(score_path) - 1] = 1

(* C2 as stated: "garden" from score 5 with g, a, x, r, d, e, n gives the *)
(* score path 5,6,6,5,6,7,8,9 and ends Solved with score 9.               *)
C2_ScenarioA_AsStated ==
    (/\ word = "garden"
     /\ guessed_letters = <<"g", "a", "x", "r", "d", "e", "n">>
     /\ score_path[1] = 5)
    => /\ score_path = <<5, 6, 6, 5, 6, 7, 8, 9>>
       /\ outcome = "Solved"
       /\ total_score = 9

(* C2 amended: "garden" from score 5 with g, a, x, r, d, e, n gives the   *)
(* score path 5,6,7,6,7,8,9,10 and ends Solved with score 10.             *)
C2_ScenarioA ==
    (/\ word = "garden"
     /\ guessed_letters = <<"g", "a", "x", "r", "d", "e", "n">>
     /\ score_path[1] = 5)
    => /\ score_path = <<5, 6, 7, 6, 7, 8, 9, 10>>
       /\ outcome = "Solved"
       /\ total_score = 10

C2_Witness ==
    /\ word = "garden"
    /\ guessed_letters = <<"g", "a", "x", "r", "d", "e", "n">>
    /\ score_path[1] = 5
    /\ rounds = 1
    /\ pc = "again"

(* C3: for every line that is one letter not yet guessed, typed at the    *)
(* guess prompt: if the letter occurs in the secret word every position   *)
(* holding it shows it afterwards and the score is one higher; otherwise  *)
(* the score is one lower and the mask is the same.                       *)
C3_AcceptedGuess ==
    [][\A input \in GuessInputs :
         (/\ pc = "guess"
          /\ OneLetter(input)
          /\ LetterOf(input) \notin Range(guessed_letters)
          /\ Guess(input))
         => IF LetterOf(input) \in Range(word_letters)
            THEN /\ \A i \in DOMAIN word_letters :
                      word_letters[i] = LetterOf(input) => hidden_word'[i] = LetterOf(input)
                 /\ total_score' = total_score + 1
            ELSE /\ total_score' = total_score - 1
                 /\ hidden_word' = hidden_word]_vars

\* one guess revealed the three positions of "e" for one point
C3_Witness ==
    /\ word = "deeded"
    /\ guessed_letters = <<"x", "e">>
    /\ hidden_word = <<Placeholder, "e", "e", Placeholder, "e", Placeholder>>
    /\ score_path = <<5, 4, 5>>

(* C4 as stated: a round that concludes with score > 0 leads to the       *)
(* continuation prompt; the answer `yes` starts a new round with the      *)
(* score carried over, and any other answer ends the session.             *)
C4_Continuation_AsStated ==
    [][/\ (pc = "guess" /\ outcome' \in {"Solved", "Exhausted"} /\ total_score' > 0)
            => (pc' = "again" /\ "again_prompt" \in Range(out'))
       /\ \A input \in AnswerInputs :
            (pc = "again" /\ Again(input))
            => IF input = <<"y", "e", "s">>
               THEN /\ rounds' = rounds + 1
                    /\ pc' = "guess"
                    /\ total_score' = total_score
               ELSE /\ pc' = "done"
                    /\ rounds' = rounds
                    /\ "thanks" \in Range(out')]_vars

(* C4 amended: a round that concludes with score > 0 leads to the         *)
(* continuation prompt; the answer `y` (in either case) starts a new      *)
(* round with the score carried over, and any other answer, `yes`         *)
(* included, ends the session.                                            *)
C4_Continuation ==
    [][/\ (pc = "guess" /\ outcome' \in {"Solved", "Exhausted"} /\ total_score' > 0)
            => (pc' = "again" /\ "again_prompt" \in Range(out'))
       /\ \A input \in AnswerInputs :
            (pc = "again" /\ Again(input))
            => IF input \in {<<"y">>, <<"Y">>}
               THEN /\ rounds' = rounds + 1
                    /\ pc' = "guess"
                    /\ total_score' = total_score
               ELSE /\ pc' = "done"
                    /\ rounds' = rounds
                    /\ "thanks" \in Range(out')]_vars

\* a second round opened with the score of a solved first round
C4_Witness ==
    /\ rounds = 2
    /\ pc = "guess"
    /\ outcome = "Active"
    /\ score_path = <<7>>
    /\ total_score = 7
    /\ guessed_letters = <<>>

(* C5: the line "!" at a guess prompt ends the session in Quit: score,    *)
(* mask and guessed letters are as before, only the farewell is printed   *)
(* (no resolution message, no prompt) and no round is started.            *)
C5_QuitSentinel ==
    [][\A input \in GuessInputs :
         (pc = "guess" /\ input = <<"!">> /\ Guess(input))
         => /\ pc' = "done"
            /\ outcome' = "Quit"
            /\ UNCHANGED <<total_score, hidden_word, guessed_letters, rounds, hits, misses>>
            /\ out' = <<"thanks">>
            /\ ~Resolved(out')
            /\ ~Prompted(out')]_vars

\* the sentinel was the first line typed in the session
C5_Witness ==
    /\ pc = "done"
    /\ outcome = "Quit"
    /\ rounds = 1
    /\ guessed_letters = <<>>
    /\ total_score = 5
    /\ out = <<"thanks">>

(* C6: a line that is one letter already among the guessed letters of    *)
(* the round leaves score, mask and guessed letters as they are, keeps    *)
(* the round Active and is followed by a new guess prompt.                *)
C6_RepeatRejected ==
    [][\A input \in GuessInputs :
         (/\ pc = "guess"
          /\ OneLetter(input)
          /\ LetterOf(input) \in Range(guessed_letters)
          /\ Guess(input))
         => /\ UNCHANGED <<total_score, hidden_word, guessed_letters>>
            /\ pc' = "guess"
            /\ outcome' = "Active"
            /\ "already" \in Range(out')
            /\ "guess_prompt" \in Range(out')]_vars

\* a repeat was rejected after two accepted guesses
C6_Witness ==
    /\ pc = "guess"
    /\ "already" \in Range(out)
    /\ Len(guessed_letters) = 2

(* C7: a line that is neither one alphabetic character nor the sentinel   *)
(* leaves score, mask and guessed letters as they are, keeps the round    *)
(* Active and is followed by a new guess prompt inside the same loop.     *)
C7_InvalidRejected ==
    [][\A input \in GuessInputs :
         (/\ pc = "guess"
          /\ ~OneLetter(input)
          /\ input # <<"!">>
          /\ Guess(input))
         => /\ UNCHANGED <<total_score, hidden_word, guessed_letters, rounds, hits, misses>>
            /\ pc' = "guess"
            /\ outcome' = "Active"
            /\ "invalid" \in Range(out')
            /\ "guess_prompt" \in Range(out')]_vars

\* a malformed line was rejected in the middle of a round
C7_Witness ==
    /\ pc = "guess"
    /\ "invalid" \in Range(out)
    /\ Len(guessed_letters) = 1

(* C8: the mask always has as many entries as the secret word has         *)
(* characters, and within a round a revealed position is never a          *)
(* placeholder again.                                                     *)
C8_MaskInvariant ==
    [][/\ Len(hidden_word') = Len(word_letters')
       /\ rounds' = rounds =>
            \A i \in DOMAIN hidden_word :
                hidden_word[i] # Placeholder => hidden_word'[i] # Placeholder]_vars

\* a revealed position survived a later hit on another letter
C8_Witness ==
    /\ word = "deed"
    /\ guessed_letters = <<"d", "x", "e">>
    /\ hidden_word = <<"d", "e", "e", "d">>

(* C9: within a round the guessed letters only grow and never repeat;     *)
(* whenever a round starts they are empty and the mask is all             *)
(* placeholders.                                                          *)
C9_GuessedLetters ==
    [][/\ rounds' = rounds => IsPrefix(guessed_letters, guessed_letters')
       /\ NoDuplicates(guessed_letters')
       /\ rounds' # rounds =>
            /\ guessed_letters' = <<>>
            /\ Len(hidden_word') = Len(word_letters')
            /\ \A i \in DOMAIN hidden_word' : hidden_word'[i] = Placeholder]_vars

\* a round after a continuation starts empty although the last one guessed letters
C9_Witness ==
    /\ rounds = 2
    /\ pc = "guess"
    /\ guessed_letters = <<>>
    /\ word = "deed"
    /\ hidden_word = <<Placeholder, Placeholder, Placeholder, Placeholder>>
    /\ total_score = 6

(* C10: in the result of make_dict two nouns with equal counts stand in   *)
(* the order in which the noun list holds them.                           *)
C10_StableTies ==
    pc = "ranked" =>
        \A i, j \in DOMAIN most_common_words :
            (/\ i < j
             /\ CountOf(most_common_words[i], tokens) = CountOf(most_common_words[j], tokens))
            => FirstIndex(noun_list, most_common_words[i])
                 < FirstIndex(noun_list, most_common_words[j])

\* number of positions of s holding exactly x
Occurrences(x, s) == Cardinality({i \in DOMAIN s : s[i] = x})

(* C11: after make_dict every noun of the noun list has exactly one entry *)
(* in noun_dict, its count is the number of positions of the token stream *)
(* holding exactly that string (0 when there is none), and nothing else   *)
(* has an entry; nouns [cat, dog] with tokens [cat, dog, cat, bird, cat]  *)
(* give cat=3, dog=1 and the order [cat, dog].                            *)
C11_ExactCounts ==
    pc = "ranked" =>
        /\ Range(KeysOf(noun_dict)) = Range(noun_list)
        /\ Len(noun_dict) = Cardinality(Range(noun_list))
        /\ \A i \in DOMAIN noun_dict :
              noun_dict[i][2] = Occurrences(noun_dict[i][1], tokens)
        /\ (tokens = ExampleInput[1] /\ noun_list = ExampleInput[2])
              => /\ noun_dict = << <<"cat", 3>>, <<"dog", 1>> >>
                 /\ most_common_words = <<"cat", "dog">>

\* the example has been ranked
C11_Witness ==
    /\ pc = "ranked"
    /\ tokens = <<"cat", "dog", "cat", "bird", "cat">>
    /\ noun_list = <<"cat", "dog">>
    /\ noun_dict = << <<"cat", 3>>, <<"dog", 1>> >>

(* C12: the result of make_dict is in non-increasing order of count, and  *)
(* a noun the slice left out has a count no greater than any noun kept.   *)
C12_DescendingCounts ==
    pc = "ranked" =>
        /\ \A i, j \in DOMAIN most_common_words :
              i < j => Occurrences(most_common_words[i], tokens)
                         >= Occurrences(most_common_words[j], tokens)
        /\ \A noun \in Range(noun_list) \ Range(most_common_words) :
              \A i \in DOMAIN most_common_words :
                  Occurrences(noun, tokens) <= Occurrences(most_common_words[i], tokens)

\* the last of 75 nouns is the only one counted and leads the 50 kept
C12_Witness ==
    /\ pc = "ranked"
    /\ Len(noun_list) = 75
    /\ tokens = <<"75">>
    /\ Len(most_common_words) = 50
    /\ most_common_words[1] = "75"

(* C13: the result of make_dict has min(50, number of distinct nouns)     *)
(* entries, all distinct and all from the noun list.                      *)
C13_TopFifty ==
    pc = "ranked" =>
        /\ Len(most_common_words) = Min(50, Cardinality(Range(noun_list)))
        /\ NoDuplicates(most_common_words)
        /\ Range(most_common_words) \subseteq Range(noun_list)

\* 75 distinct nouns were cut to 50
C13_Witness ==
    /\ pc = "ranked"
    /\ Cardinality(Range(noun_list)) = 75
    /\ tokens = <<>>
    /\ Len(most_common_words) = 50
    /\ Len(noun_dict) = 75

(* C14: with an empty noun list make_dict returns the empty sequence and  *)
(* guessing_game stops with an error before a round exists: no word is    *)
(* chosen, no mask is built, no prompt is issued.                         *)
C14_EmptyVocabulary ==
    [][noun_list = <<>> =>
         /\ pc = "make_dict" => most_common_words' = <<>>
         /\ pc = "start" => pc' = "error"
         /\ pc' \notin {"guess", "again", "done"}
         /\ rounds' = 0
         /\ word' = ""
         /\ word_letters' = <<>>
         /\ hidden_word' = <<>>
         /\ ~Prompted(out')]_vars

\* the run with an empty noun list has stopped at random.choice
C14_Witness ==
    /\ noun_list = <<>>
    /\ tokens = <<"deed">>
    /\ most_common_words = <<>>
    /\ pc = "error"
    /\ out = <<"lets_play", "IndexError">>
    /\ rounds = 0

(* C15: with fewer than 20 tagged lemmas preprocess prints min(20,        *)
(* length) entries, ends normally and returns the tokens and the nouns.   *)
C15_ShortListTolerated ==
    (pc \in {"preprocessed", "error"} /\ Len(tags_list) < 20)
    => /\ pc = "preprocessed"
       /\ Occurrences("lemma_tag", out) = Min(20, Len(tags_list))
       /\ noun_list = SelectNouns(tags_list)

(* C16: for a non-empty token list the ratio of distinct tokens to tokens *)
(* is above 0 and at most 1, and is 1 exactly when no token repeats.      *)
C16_DiversityBounds ==
    (pc = "lexi_done" /\ tokens # <<>>)
    => /\ ratio[2] > 0
       /\ 0 < ratio[1]
       /\ ratio[1] <= ratio[2]
       /\ (ratio[1] = ratio[2] <=> NoDuplicates(tokens))

\* three tokens, two of them distinct
C16_Witness ==
    /\ pc = "lexi_done"
    /\ tokens = <<"the", "cat", "the">>
    /\ ratio = <<2, 3>>

(* C17: a round that ends Solved ends with a positive score and the       *)
(* continuation prompt; a resolved round reports "ran out of points"      *)
(* exactly when the score is 0.                                           *)
C17_SolvedPositive ==
    /\ outcome = "Solved" => total_score > 0
    /\ outcome = "Exhausted" => total_score = 0
    /\ "solved" \in Range(out) =>
         /\ outcome = "Solved"
         /\ pc = "again"
         /\ "again_prompt" \in Range(out)
    /\ Resolved(out) => ("ran_out" \in Range(out) <=> total_score = 0)

\* the word was completed by two hits that started from the last point
C17_Witness ==
    /\ outcome = "Solved"
    /\ pc = "again"
    /\ "solved" \in Range(out)
    /\ "again_prompt" \in Range(out)
    /\ score_path = <<5, 4, 3, 2, 1, 2, 3>>

(* C18: the score is 5 plus the accepted hits minus the accepted misses   *)
(* of the session, is never negative, and is at least 1 whenever a guess  *)
(* prompt is issued.                                                      *)
C18_ScoreAccounting ==
    /\ total_score = 5 + hits - misses
    /\ total_score >= 0
    /\ (pc = "guess" \/ "guess_prompt" \in Range(out)) => total_score >= 1

\* hits and misses of two rounds are both in the score
C18_Witness ==
    /\ rounds = 2
    /\ pc = "guess"
    /\ hits = 3
    /\ misses = 2
    /\ total_score = 6
    /\ guessed_letters = <<"g", "d">>

(* C19: in a round a mask position is revealed exactly when the word's    *)
(* character there has been guessed, and then shows that character; the   *)
(* round is Solved exactly when every letter of the word has been guessed.*)
C19_MaskMatchesGuesses ==
    rounds >= 1 =>
        /\ Len(hidden_word) = Len(word_letters)
        /\ \A i \in DOMAIN word_letters :
             /\ hidden_word[i] # Placeholder <=> word_letters[i] \in Range(guessed_letters)
             /\ hidden_word[i] # Placeholder => hidden_word[i] = word_letters[i]
        /\ outcome = "Solved" <=> Range(word_letters) \subseteq Range(guessed_letters)

\* one of two letters guessed, a miss in between: three positions shown
C19_Witness ==
    /\ word = "deeded"
    /\ pc = "guess"
    /\ guessed_letters = <<"d", "g">>
    /\ hidden_word = <<"d", Placeholder, Placeholder, "d", Placeholder, "d">>

\* the letters a line at the guess prompt can stand for
TypableLetters == {LetterOf(<<c>>) : c \in {ch \in GuessChars : OneLetter(<<ch>>)}}

(* C20: when the player at a guess prompt eventually enters a new letter  *)
(* or the quit sentinel, every round ends Solved, Exhausted or Quit; an   *)
(* accepted guess adds one letter to the guessed letters, which never     *)
(* hold more letters than the alphabet has.                               *)
C20_RoundTerminates ==
    /\ [](Cardinality(Range(guessed_letters)) = Len(guessed_letters))
    /\ [](Len(guessed_letters) <= Cardinality(TypableLetters))
    /\ [][(rounds' = rounds /\ guessed_letters' # guessed_letters) =>
             Len(guessed_letters') = Len(guessed_letters) + 1]_vars
    /\ (pc = "guess") ~> (pc # "guess" /\ outcome \in {"Solved", "Exhausted", "Quit"})

\* a round that took every letter of the alphabet before it ended
C20_Witness ==
    /\ Len(guessed_letters) = Cardinality(TypableLetters)
    /\ outcome = "Solved"
    /\ pc = "again"
    /\ word = "deed"

====
